---- MODULE Spec2Model ----
(***************************************************************************)
(* Model of scripts/transcribe.py: the CLI entry point (argument check,   *)
(* path-existence check, call of transcribe(), print) and transcribe()    *)
(* itself (model load, engine call, lazy iteration over the segments,     *)
(* strip and join).                                                        *)
(*                                                                         *)
(* Transcript text is a sequence of one-character strings so that strip   *)
(* and join are computed character by character.  Diagnostics on stderr   *)
(* are TLA+ strings built by concatenation.  The speech engine is an      *)
(* external collaborator: every call into it either returns or raises,    *)
(* and the segment generator yields any text, stops, or raises.           *)
(* The file system and the environment are inputs fixed for one run.      *)
(***************************************************************************)
EXTENDS Integers, Sequences, FiniteSets, TLC

VARIABLES
    argv,               \* sys.argv; argv[1] is the program name
    fs,                 \* set of paths that exist (os.path.exists)
    environ,            \* os.environ restricted to WHISPER_MODEL
    pc,                 \* position of the single thread of control
    audio_file,         \* local of __main__
    WhisperModel_calls, \* arguments of every WhisperModel(...) construction
    transcribe_calls,   \* arguments of every model.transcribe(...) call
    gen,                \* state of the lazy segment generator
    segments,           \* segment texts the generator has yielded so far
    text_parts,         \* local of transcribe()
    result,             \* return value of transcribe()
    stdout,             \* characters written to stdout
    stderr,             \* text written to stderr
    exitCode,           \* <<>> while running, <<c>> once exited with code c
    raised              \* an exception propagated out of the script

vars == <<argv, fs, environ, pc, audio_file, WhisperModel_calls,
          transcribe_calls, gen, segments, text_parts, result, stdout,
          stderr, exitCode, raised>>

----------------------------------------------------------------------------
(* Bounds *)

\* segments the generator yields in one run
MaxSegs == 2
\* characters the generator yields in one run, over all segments
MaxChars == 4

(* Inputs *)

Chars == {"a", " ", "\n"}
Whitespace == {" ", "\n"}

SeqsUpTo(S, n) == UNION {[1..k -> S] : k \in 0..n}

Texts == SeqsUpTo(Chars, MaxChars)

RECURSIVE TotalLen(_)
TotalLen(segs) == IF segs = <<>> THEN 0 ELSE Len(Head(segs)) + TotalLen(Tail(segs))

Argvs == { <<"transcribe.py">>,
           <<"transcribe.py", "sample.wav">>,
           <<"transcribe.py", "missing.wav">>,
           <<"transcribe.py", "sample.wav", "missing.wav">> }

FileSystems == { {}, {"sample.wav"} }

Environs == { [k \in {} |-> ""] } \cup [{"WHISPER_MODEL"} -> {"tiny", "large-v3"}]

NoValue == "<unassigned>"

----------------------------------------------------------------------------
(* Pure functions *)

BeamSize == 5

UsageMsg == "Usage: transcribe.py <audio_file>"

NotFoundMsg(path) == "File not found: " \o path

Traceback == "Traceback (most recent call last):"

\* os.environ.get(key, default)
EnvironGet(key, default) == IF key \in DOMAIN environ THEN environ[key] ELSE default

RECURSIVE LStrip(_)
LStrip(s) ==
    IF s = <<>> THEN s
    ELSE IF Head(s) \in Whitespace THEN LStrip(Tail(s)) ELSE s

RECURSIVE RStrip(_)
RStrip(s) ==
    IF s = <<>> THEN s
    ELSE IF s[Len(s)] \in Whitespace THEN RStrip(SubSeq(s, 1, Len(s) - 1)) ELSE s

Strip_lstripOnly(s) == LStrip(s)

RECURSIVE Strip_spacesOnly(_)
Strip_spacesOnly(s) ==
    IF s = <<>> THEN s
    ELSE IF Head(s) = " " THEN Strip_spacesOnly(Tail(s))
    ELSE IF s[Len(s)] = " " THEN Strip_spacesOnly(SubSeq(s, 1, Len(s) - 1))
    ELSE s

\* str.strip(): drop leading, then trailing, whitespace
Strip(s) == RStrip(LStrip(s))

RECURSIVE Join_emptySep(_)
Join_emptySep(parts) ==
    IF parts = <<>> THEN <<>>
    ELSE Head(parts) \o Join_emptySep(Tail(parts))

\* " ".join(parts)
RECURSIVE Join(_)
Join(parts) ==
    IF parts = <<>> THEN <<>>
    ELSE IF Len(parts) = 1 THEN parts[1]
    ELSE Head(parts) \o <<" ">> \o Join(Tail(parts))

----------------------------------------------------------------------------
(* Initial state: the interpreter is about to run the __main__ block *)

Init ==
    /\ argv \in Argvs
    /\ fs \in FileSystems
    /\ environ \in Environs
    /\ pc = "main"
    /\ audio_file = NoValue
    /\ WhisperModel_calls = <<>>
    /\ transcribe_calls = <<>>
    /\ gen = "none"
    /\ segments = <<>>
    /\ text_parts = <<>>
    /\ result = <<>>
    /\ stdout = <<>>
    /\ stderr = ""
    /\ exitCode = <<>>
    /\ raised = FALSE

inputs == <<argv, fs, environ>>

----------------------------------------------------------------------------
(* __main__ *)

CheckArgs_exit0 ==
    /\ pc = "main"
    /\ IF Len(argv) < 2
       THEN /\ stderr' = stderr \o UsageMsg \o "\n"
            /\ exitCode' = <<0>>
            /\ pc' = "done"
            /\ UNCHANGED audio_file
       ELSE /\ audio_file' = argv[2]
            /\ pc' = "exists"
            /\ UNCHANGED <<stderr, exitCode>>
    /\ UNCHANGED <<inputs, WhisperModel_calls, transcribe_calls, gen, segments,
                   text_parts, result, stdout, raised>>

\* if len(sys.argv) < 2: print usage, exit 1; else audio_file = sys.argv[1]
CheckArgs ==
    /\ pc = "main"
    /\ IF Len(argv) < 2
       THEN /\ stderr' = stderr \o UsageMsg \o "\n"
            /\ exitCode' = <<1>>
            /\ pc' = "done"
            /\ UNCHANGED audio_file
       ELSE /\ audio_file' = argv[2]
            /\ pc' = "exists"
            /\ UNCHANGED <<stderr, exitCode>>
    /\ UNCHANGED <<inputs, WhisperModel_calls, transcribe_calls, gen, segments,
                   text_parts, result, stdout, raised>>

CheckExists_noPath ==
    /\ pc = "exists"
    /\ IF audio_file \notin fs
       THEN /\ stderr' = stderr \o "File not found: " \o "\n"
            /\ exitCode' = <<1>>
            /\ pc' = "done"
       ELSE /\ pc' = "import"
            /\ UNCHANGED <<stderr, exitCode>>
    /\ UNCHANGED <<inputs, audio_file, WhisperModel_calls, transcribe_calls, gen,
                   segments, text_parts, result, stdout, raised>>

CheckExists_noExit ==
    /\ pc = "exists"
    /\ IF audio_file \notin fs
       THEN /\ stderr' = stderr \o NotFoundMsg(audio_file) \o "\n"
            /\ pc' = "import"
            /\ UNCHANGED exitCode
       ELSE /\ pc' = "import"
            /\ UNCHANGED <<stderr, exitCode>>
    /\ UNCHANGED <<inputs, audio_file, WhisperModel_calls, transcribe_calls, gen,
                   segments, text_parts, result, stdout, raised>>

\* if not os.path.exists(audio_file): print message, exit 1; else call transcribe
CheckExists ==
    /\ pc = "exists"
    /\ IF audio_file \notin fs
       THEN /\ stderr' = stderr \o NotFoundMsg(audio_file) \o "\n"
            /\ exitCode' = <<1>>
            /\ pc' = "done"
       ELSE /\ pc' = "import"
            /\ UNCHANGED <<stderr, exitCode>>
    /\ UNCHANGED <<inputs, audio_file, WhisperModel_calls, transcribe_calls, gen,
                   segments, text_parts, result, stdout, raised>>

----------------------------------------------------------------------------
(* transcribe(audio_path) *)

\* from faster_whisper import WhisperModel
ImportEngine ==
    /\ pc = "import"
    /\ pc' = "load"
    /\ UNCHANGED <<inputs, audio_file, WhisperModel_calls, transcribe_calls, gen,
                   segments, text_parts, result, stdout, stderr, exitCode, raised>>

\* the import raises; nothing catches it
ImportEngineFails ==
    /\ pc = "import"
    /\ raised' = TRUE
    /\ stderr' = stderr \o Traceback \o "\n"
    /\ exitCode' = <<1>>
    /\ pc' = "done"
    /\ UNCHANGED <<inputs, audio_file, WhisperModel_calls, transcribe_calls, gen,
                   segments, text_parts, result, stdout>>

LoadModel_defaultBase ==
    /\ pc = "load"
    /\ WhisperModel_calls' = Append(WhisperModel_calls,
           [model_size |-> EnvironGet("WHISPER_MODEL", "base"),
            device |-> "cpu", compute_type |-> "int8"])
    /\ pc' = "call"
    /\ UNCHANGED <<inputs, audio_file, transcribe_calls, gen, segments,
                   text_parts, result, stdout, stderr, exitCode, raised>>

\* model_size = os.environ.get(...); model = WhisperModel(model_size, ...)
LoadModel ==
    /\ pc = "load"
    /\ WhisperModel_calls' = Append(WhisperModel_calls,
           [model_size |-> EnvironGet("WHISPER_MODEL", "small"),
            device |-> "cpu", compute_type |-> "int8"])
    /\ pc' = "call"
    /\ UNCHANGED <<inputs, audio_file, transcribe_calls, gen, segments,
                   text_parts, result, stdout, stderr, exitCode, raised>>

\* the constructor raises; nothing catches it
LoadModelFails ==
    /\ pc = "load"
    /\ WhisperModel_calls' = Append(WhisperModel_calls,
           [model_size |-> EnvironGet("WHISPER_MODEL", "small"),
            device |-> "cpu", compute_type |-> "int8"])
    /\ raised' = TRUE
    /\ stderr' = stderr \o Traceback \o "\n"
    /\ exitCode' = <<1>>
    /\ pc' = "done"
    /\ UNCHANGED <<inputs, audio_file, transcribe_calls, gen, segments,
                   text_parts, result, stdout>>

\* segments, info = model.transcribe(audio_path, beam_size=5); text_parts = []
CallTranscribe ==
    /\ pc = "call"
    /\ transcribe_calls' = Append(transcribe_calls,
           [audio_path |-> audio_file, beam_size |-> BeamSize])
    /\ gen' = "active"
    /\ text_parts' = <<>>
    /\ pc' = "iter"
    /\ UNCHANGED <<inputs, audio_file, WhisperModel_calls, segments, result,
                   stdout, stderr, exitCode, raised>>

CallTranscribeFails_retry ==
    /\ pc = "call"
    /\ Len(transcribe_calls) < 3
    /\ transcribe_calls' = Append(transcribe_calls,
           [audio_path |-> audio_file, beam_size |-> BeamSize])
    /\ pc' = "call"
    /\ UNCHANGED <<inputs, audio_file, WhisperModel_calls, gen, segments,
                   text_parts, result, stdout, stderr, exitCode, raised>>

\* model.transcribe raises; nothing catches it
CallTranscribeFails ==
    /\ pc = "call"
    /\ transcribe_calls' = Append(transcribe_calls,
           [audio_path |-> audio_file, beam_size |-> BeamSize])
    /\ raised' = TRUE
    /\ stderr' = stderr \o Traceback \o "\n"
    /\ exitCode' = <<1>>
    /\ pc' = "done"
    /\ UNCHANGED <<inputs, audio_file, WhisperModel_calls, gen, segments,
                   text_parts, result, stdout>>

NextSegment_streaming ==
    /\ pc = "iter"
    /\ gen = "active"
    /\ Len(segments) < MaxSegs
    /\ \E text \in Texts :
          /\ TotalLen(segments) + Len(text) <= MaxChars
          /\ segments' = Append(segments, text)
          /\ text_parts' = Append(text_parts, Strip(text))
          /\ stdout' = stdout \o Strip(text) \o <<" ">>
    /\ UNCHANGED <<inputs, pc, audio_file, WhisperModel_calls, transcribe_calls,
                   gen, result, stderr, exitCode, raised>>

\* for segment in segments: text_parts.append(segment.text.strip())
NextSegment ==
    /\ pc = "iter"
    /\ gen = "active"
    /\ Len(segments) < MaxSegs
    /\ \E text \in Texts :
          /\ TotalLen(segments) + Len(text) <= MaxChars
          /\ segments' = Append(segments, text)
          /\ text_parts' = Append(text_parts, Strip(text))
    /\ UNCHANGED <<inputs, pc, audio_file, WhisperModel_calls, transcribe_calls,
                   gen, result, stdout, stderr, exitCode, raised>>

\* the generator raises while producing the next segment; nothing catches it
NextSegmentFails ==
    /\ pc = "iter"
    /\ gen = "active"
    /\ gen' = "failed"
    /\ raised' = TRUE
    /\ stderr' = stderr \o Traceback \o "\n"
    /\ exitCode' = <<1>>
    /\ pc' = "done"
    /\ UNCHANGED <<inputs, audio_file, WhisperModel_calls, transcribe_calls,
                   segments, text_parts, result, stdout>>

\* the generator is exhausted; return " ".join(text_parts); result = ...
Return ==
    /\ pc = "iter"
    /\ gen = "active"
    /\ gen' = "exhausted"
    /\ result' = Join(text_parts)
    /\ pc' = "print"
    /\ UNCHANGED <<inputs, audio_file, WhisperModel_calls, transcribe_calls,
                   segments, text_parts, stdout, stderr, exitCode, raised>>

PrintResult_toStderr ==
    /\ pc = "print"
    /\ stderr' = stderr \o "transcript" \o "\n"
    /\ exitCode' = <<0>>
    /\ pc' = "done"
    /\ UNCHANGED <<inputs, audio_file, WhisperModel_calls, transcribe_calls, gen,
                   segments, text_parts, result, stdout, raised>>

\* print(result); falling off the end of the script exits with code 0
PrintResult ==
    /\ pc = "print"
    /\ stdout' = stdout \o result \o <<"\n">>
    /\ exitCode' = <<0>>
    /\ pc' = "done"
    /\ UNCHANGED <<inputs, audio_file, WhisperModel_calls, transcribe_calls, gen,
                   segments, text_parts, result, stderr, raised>>

----------------------------------------------------------------------------

Next ==
    \/ CheckArgs
    \/ CheckExists
    \/ ImportEngine
    \/ ImportEngineFails
    \/ LoadModel
    \/ LoadModelFails
    \/ CallTranscribe
    \/ CallTranscribeFails
    \/ NextSegment
    \/ NextSegmentFails
    \/ Return
    \/ PrintResult

Spec == Init /\ [][Next]_vars

\* The script is one synchronous thread: while a step is possible it is taken.
FairSpec == Spec /\ WF_vars(Next)

----------------------------------------------------------------------------
(* Vocabulary of the properties, stated without Strip and Join *)

NonWs(t) == {i \in 1..Len(t) : t[i] \notin Whitespace}

AllWhitespace(t) == NonWs(t) = {}

Least(S) == CHOOSE i \in S : \A j \in S : i <= j

Greatest(S) == CHOOSE i \in S : \A j \in S : j <= i

\* the text between the first and the last non-whitespace character of t
Trimmed(t) == IF AllWhitespace(t) THEN <<>> ELSE SubSeq(t, Least(NonWs(t)), Greatest(NonWs(t)))

TrimmedAll(segs) == [i \in 1..Len(segs) |-> Trimmed(segs[i])]

RECURSIVE PartStart(_, _)
PartStart(parts, i) ==
    IF i = 1 THEN 1 ELSE PartStart(parts, i - 1) + Len(parts[i - 1]) + 1

\* r is parts[1], " ", parts[2], " ", ..., parts[n] and nothing else
IsSpaceJoin(r, parts) ==
    LET n == Len(parts) IN
    IF n = 0 THEN r = <<>>
    ELSE /\ Len(r) = PartStart(parts, n) + Len(parts[n]) - 1
         /\ \A i \in 1..n :
               SubSeq(r, PartStart(parts, i), PartStart(parts, i) + Len(parts[i]) - 1) = parts[i]
         /\ \A i \in 1..(n - 1) : r[PartStart(parts, i) + Len(parts[i])] = " "

HasNewline(s) == \E i \in 1..Len(s) : s[i] = "\n"

\* a newline of t with a non-whitespace character before it and one after it
HasInteriorNewline(t) ==
    \E i, j, k \in 1..Len(t) :
        i < j /\ j < k /\ t[i] \notin Whitespace /\ t[j] = "\n" /\ t[k] \notin Whitespace

PathGiven == Len(argv) >= 2

PathExists == PathGiven /\ argv[2] \in fs

UsageError == ~raised /\ exitCode = <<1>> /\ stderr = UsageMsg \o "\n"

FileMissing == ~raised /\ exitCode = <<1>> /\ audio_file # NoValue
                 /\ stderr = NotFoundMsg(audio_file) \o "\n"

Success == ~raised /\ exitCode = <<0>>

EngineFailure == raised /\ exitCode # <<>> /\ exitCode # <<0>>

Outcomes == {o \in {"usage-error", "file-missing", "success", "engine-failure"} :
                \/ o = "usage-error" /\ UsageError
                \/ o = "file-missing" /\ FileMissing
                \/ o = "success" /\ Success
                \/ o = "engine-failure" /\ EngineFailure}

----------------------------------------------------------------------------
(* Properties *)

\* C1: run with no positional argument, the process (as soon as it has taken
\* its first step) has exited with code 1, having written exactly the usage
\* line to stderr and nothing to stdout.
C1_UsageError ==
    (~PathGiven /\ pc # "main") =>
        /\ pc = "done"
        /\ stderr = "Usage: transcribe.py <audio_file>\n"
        /\ stdout = <<>>
        /\ exitCode = <<1>>

C1_Witness == pc = "done" /\ Len(argv) = 1 /\ exitCode = <<1>> /\ stderr # ""

\* C2: when the first argument P names no existing file, the process (once
\* past the existence check) has exited with code 1, having written
\* "File not found: P" to stderr and nothing to stdout; before that it has
\* written nothing at all.
C2_FileNotFound ==
    (PathGiven /\ argv[2] \notin fs) =>
        IF pc \in {"main", "exists"}
        THEN stderr = "" /\ stdout = <<>> /\ exitCode = <<>>
        ELSE /\ pc = "done"
             /\ stderr = "File not found: " \o argv[2] \o "\n"
             /\ stdout = <<>>
             /\ exitCode = <<1>>

C2_Witness ==
    /\ pc = "done"
    /\ argv = <<"transcribe.py", "sample.wav", "missing.wav">>
    /\ fs = {}
    /\ stderr = "File not found: sample.wav\n"

\* C3: a finished run has exit code 0 exactly when the path exists and no
\* engine step failed; then stdout is the string returned by transcribe()
\* (the space-join of the trimmed segments) followed by the line terminator,
\* and stderr is empty.
C3_Success ==
    pc = "done" =>
        /\ (exitCode = <<0>>) <=> (PathExists /\ ~raised)
        /\ (exitCode = <<0>>) =>
              /\ gen = "exhausted"
              /\ IsSpaceJoin(result, TrimmedAll(segments))
              /\ stdout = result \o <<"\n">>
              /\ stderr = ""

C3_Witness ==
    /\ pc = "done"
    /\ exitCode = <<0>>
    /\ segments = << <<"a">>, <<"a", "a">> >>
    /\ stdout = <<"a", " ", "a", "a", "\n">>

\* C4: once transcribe() has returned, its result is the trimmed segment
\* texts in the engine's order with exactly one space between consecutive
\* parts and nothing before the first or after the last.
C4_JoinStripped ==
    gen = "exhausted" => IsSpaceJoin(result, TrimmedAll(segments))

C4_Witness ==
    /\ gen = "exhausted"
    /\ segments = << <<" ", "a">>, <<"a", "\n">> >>
    /\ result = <<"a", " ", "a">>

\* C5 (as stated): whenever the engine yielded at least one segment, the
\* string returned by transcribe() is non-empty.
C5_Original ==
    (gen = "exhausted" /\ Len(segments) >= 1) => result # <<>>

\* C5 (amended): the returned string is empty exactly when the engine
\* yielded no segment, or one segment whose text is empty or all whitespace.
C5_EmptyResult ==
    gen = "exhausted" =>
        ((result = <<>>) <=>
            \/ Len(segments) = 0
            \/ Len(segments) = 1 /\ AllWhitespace(segments[1]))

C5_Witness ==
    /\ gen = "exhausted"
    /\ Len(segments) = 2
    /\ AllWhitespace(segments[1]) /\ AllWhitespace(segments[2])
    /\ result = <<" ">>

\* C6 (as stated): on a successful run the text on stdout has no line break
\* other than the terminating one.
C6_Original ==
    (pc = "done" /\ exitCode = <<0>>) =>
        /\ Len(stdout) >= 1
        /\ stdout[Len(stdout)] = "\n"
        /\ ~HasNewline(SubSeq(stdout, 1, Len(stdout) - 1))

\* C6 (amended): on a successful run stdout ends with the line terminator,
\* and the text before it has a line break exactly when some segment text
\* has a newline between two of its non-whitespace characters.
C6_SingleLine ==
    (pc = "done" /\ exitCode = <<0>>) =>
        /\ Len(stdout) >= 1
        /\ stdout[Len(stdout)] = "\n"
        /\ HasNewline(SubSeq(stdout, 1, Len(stdout) - 1))
              <=> \E i \in 1..Len(segments) : HasInteriorNewline(segments[i])

C6_Witness ==
    /\ pc = "done"
    /\ exitCode = <<0>>
    /\ segments = << <<"a", "\n">>, <<"\n", "a">> >>
    /\ stdout = <<"a", " ", "a", "\n">>

\* C7: every model construction uses the tier WHISPER_MODEL when set and
\* "small" when unset, device "cpu" and compute type "int8"; every engine
\* transcribe call is for the given path with beam size 5; both have happened
\* once the segments are iterated; and the returned string is determined by
\* the segments alone, whatever the tier.
C7_ModelConfig ==
    /\ \A i \in 1..Len(WhisperModel_calls) :
          WhisperModel_calls[i] =
              [model_size |-> IF "WHISPER_MODEL" \in DOMAIN environ
                                THEN environ["WHISPER_MODEL"] ELSE "small",
               device |-> "cpu", compute_type |-> "int8"]
    /\ \A i \in 1..Len(transcribe_calls) :
          transcribe_calls[i] = [audio_path |-> argv[2], beam_size |-> 5]
    /\ gen # "none" => Len(WhisperModel_calls) = 1 /\ Len(transcribe_calls) = 1
    /\ \A e \in Environs :
          (environ = e /\ gen = "exhausted") => IsSpaceJoin(result, TrimmedAll(segments))

C7_Witness ==
    /\ gen = "exhausted"
    /\ DOMAIN environ = {}
    /\ Len(WhisperModel_calls) = 1
    /\ WhisperModel_calls[1].model_size = "small"
    /\ Len(segments) = 2

C7_WitnessSet ==
    /\ gen = "exhausted"
    /\ "WHISPER_MODEL" \in DOMAIN environ
    /\ Len(WhisperModel_calls) = 1
    /\ WhisperModel_calls[1].model_size = "large-v3"

\* C8: the engine is touched only after both checks passed: whenever control
\* is inside transcribe() or any engine call has been made, a path was given,
\* audio_file is that path and it exists; with no argument or a missing file
\* no model is ever loaded and no transcription requested.
C8_ChecksBeforeEngine ==
    /\ (\/ pc \in {"import", "load", "call", "iter", "print"}
        \/ WhisperModel_calls # <<>>
        \/ transcribe_calls # <<>>
        \/ gen # "none")
          => (PathGiven /\ audio_file = argv[2] /\ audio_file \in fs)
    /\ ~PathExists =>
          (WhisperModel_calls = <<>> /\ transcribe_calls = <<>> /\ gen = "none")

C8_Witness ==
    /\ pc = "iter"
    /\ Len(transcribe_calls) = 1
    /\ transcribe_calls[1].audio_path = "sample.wav"
    /\ "sample.wav" \in fs

C8_WitnessMissing ==
    /\ pc = "done"
    /\ PathGiven /\ argv[2] \notin fs
    /\ WhisperModel_calls = <<>>

\* C9: stdout is written only after the generator is exhausted and the parts
\* are joined; a run that got past the checks and whose engine failed (at
\* import or load, at the transcribe call, or while iterating) ends with the
\* exception uncaught, a non-zero exit code and an empty stdout.
C9_NoPartialOutput ==
    /\ stdout # <<>> =>
          /\ pc = "done"
          /\ gen = "exhausted"
          /\ Len(text_parts) = Len(segments)
          /\ stdout = result \o <<"\n">>
    /\ gen = "failed" => raised
    /\ (pc = "done" /\ PathExists /\ gen # "exhausted") => raised
    /\ raised =>
          /\ pc = "done"
          /\ exitCode # <<>> /\ exitCode # <<0>>
          /\ stdout = <<>>

C9_Witness ==
    /\ pc = "done"
    /\ raised
    /\ gen = "failed"
    /\ Len(segments) >= 1
    /\ stdout = <<>>

\* C10: the model is constructed at most once and the engine's transcribe is
\* called at most once; the process eventually terminates; a terminated
\* process is in exactly one of the four outcomes; and it stays terminated.
C10_OneRequestThenExit ==
    /\ [](Len(WhisperModel_calls) <= 1 /\ Len(transcribe_calls) <= 1)
    /\ <>(pc = "done")
    /\ [](pc = "done" => Cardinality(Outcomes) = 1)
    /\ [](pc # "done" => Outcomes = {})
    /\ [][pc = "done" => UNCHANGED vars]_vars

C10_Witness ==
    /\ pc = "done"
    /\ Outcomes = {"engine-failure"}
    /\ Len(WhisperModel_calls) = 1
    /\ Len(transcribe_calls) = 1
    /\ gen = "none"

====
